---------------------------- MODULE Spec2Model ----------------------------
(***************************************************************************)
(* A model of the rosbag reader (src/src/rosbag/rosbag.py).                *)
(*                                                                         *)
(* A bag file is modelled as a banner followed by a sequence of cells.  A  *)
(* cell is one length-prefixed unit of the file: a record header blob, a   *)
(* record data blob, the 4-byte size prefix of a chunk's data, or the      *)
(* stored payload of a compressed chunk.  File positions count cells, so   *)
(* the arithmetic the reader does on positions (index_pos, chunk_pos,      *)
(* data_pos + offset, a relative seek over compressed_size) is kept.       *)
(* A file may end inside the length prefix of a cell (cut = "len") or      *)
(* inside the body of its last cell (cut = "body").                        *)
(*                                                                         *)
(* Every public operation (open, getMessages, one step of the lazy         *)
(* sequence of the unindexed reader, read_message_data_record, close) is   *)
(* one action; what it computes is an operator translated from the code.   *)
(***************************************************************************)
EXTENDS Integers, Sequences, FiniteSets, TLC

VARIABLES
    file,       \* the byte source: banner, cells, truncation (never written)
    fpos,       \* read position of the byte source, in cells after the banner
    fclosed,    \* TRUE once file.close() was called
    bag,        \* the fields of the Bag object
    ser,        \* the fields of the serializer object (bag.serializer)
    gen,        \* the frame of the generator of the unindexed v1.2 reader
    last,       \* the last operation called and how it ended
    steps       \* number of operations called after open

vars == <<file, fpos, fclosed, bag, ser, gen, last, steps>>

-----------------------------------------------------------------------------
(* Bounds of the model *)

MaxSteps == 3       \* operations called on a Bag after open
MaxRecords == 4     \* records in the stream of an unindexed v1.2 bag

-----------------------------------------------------------------------------
(* Record opcodes and version numbers of the program *)

OP_MSG_DEF == 1
OP_MSG_DATA == 2
OP_FILE_HEADER == 3
OP_INDEX_DATA == 4
OP_CHUNK == 5
OP_CHUNK_INFO == 6

COMPRESSION_NONE == "none"
COMPRESSION_BZ2 == "bz2"
COMPRESSION_ZLIB == "zlib"

\* How an operation ends: normally, or with one of the exceptions the code
\* raises or lets through.
OK == "ok"
FormatError == "ROSBagFormatException"
GeneralError == "ROSBagException"
StructError == "struct.error"
KeyError == "KeyError"
UnboundLocalError == "UnboundLocalError"
IOError == "IOError"
AttributeError == "AttributeError"

None == "None"

-----------------------------------------------------------------------------
(* Generic helpers *)

EmptyDict == <<>>

Put(d, k, v) == [x \in (DOMAIN d) \cup {k} |-> IF x = k THEN v ELSE d[x]]

Range(s) == {s[i] : i \in DOMAIN s}

RECURSIVE Flatten(_)
Flatten(ss) == IF ss = <<>> THEN <<>> ELSE Head(ss) \o Flatten(Tail(ss))

RECURSIVE SumSeq(_)
SumSeq(s) == IF s = <<>> THEN 0 ELSE Head(s) + SumSeq(Tail(s))

\* all orders in which the keys of a dict can be enumerated
Orders(S) == {o \in [1..Cardinality(S) -> S] : Range(o) = S}


-----------------------------------------------------------------------------
(* The byte source.                                                        *)

\* One length-prefixed unit of the file.
\*   k = "hdr"   a record header blob; h maps the field names to their values
\*   k = "badhdr" a header blob whose fields do not parse (no '=' or bad size)
\*   k = "data"  a record data blob: d its bytes; for a chunk-info record tc,
\*               the (topic, count) pairs; for an index record ix, the
\*               (time, offset) pairs
\*   k = "len"   the u32 size prefix of a chunk's data: n cells follow
\*   k = "z"     the stored payload of a compressed chunk: alg the algorithm
\*               that produced it, p the cells it decompresses to
Cell(k, h, d, tc, ix, n, alg, p) ==
    [k |-> k, h |-> h, d |-> d, tc |-> tc, ix |-> ix, n |-> n, alg |-> alg, p |-> p]

HdrCell(h) == Cell("hdr", h, "", <<>>, <<>>, 0, "", <<>>)
BadHdrCell == Cell("badhdr", <<>>, "", <<>>, <<>>, 0, "", <<>>)
DataCell(d) == Cell("data", <<>>, d, <<>>, <<>>, 0, "", <<>>)
TcCell(tc) == Cell("data", <<>>, "", tc, <<>>, 0, "", <<>>)
IxCell(ix) == Cell("data", <<>>, "", <<>>, ix, 0, "", <<>>)
LenCell(n) == Cell("len", <<>>, "", <<>>, <<>>, n, "", <<>>)
ZCell(alg, p) == Cell("z", <<>>, "", <<>>, <<>>, 0, alg, p)

\* A seekable stream of cells; cut says how it ends: "none" at a cell
\* boundary, "len" inside the 4-byte length prefix of a further cell, "body"
\* inside the body of its last cell.  cutIn says, for a body cut of a data blob
\* that the reader parses item by item, whether the cut falls in a fixed-width
\* integer ("int") or in the bytes of a sized blob ("bytes").
Stream(cells, cut, cutIn) == [cells |-> cells, cut |-> cut, cutIn |-> cutIn]

\* cStringIO.StringIO(self.decompressed_chunk)
StringIO(cells) == Stream(cells, "none", "int")

Ok(pos, v) == [st |-> OK, pos |-> pos, v |-> v]
Raise(kind, pos) == [st |-> kind, pos |-> pos, v |-> None]

\* the cell at position pos is there with all of its bytes
Whole(f, pos) ==
    /\ pos >= 0
    /\ pos < Len(f.cells)
    /\ ~(pos = Len(f.cells) - 1 /\ f.cut = "body")

\* f.read(4) at pos returns 4 bytes: a cell starts there (a body cut leaves
\* the length prefix of the last cell whole)
HasPrefix(f, pos) == pos >= 0 /\ pos < Len(f.cells)

\* _read_uint32(f) at the u32 that starts the cell at pos: struct.unpack
\* fails on fewer than 4 bytes (end of file, or a cut inside the prefix)
read_uint32(f, pos) ==
    IF HasPrefix(f, pos) THEN Ok(pos, f.cells[pos + 1].n) ELSE Raise(StructError, pos)

\* _read_sized(f): a u32 length, then _read(f, size), which raises
\* ROSBagException on a short read
read_sized(f, pos) ==
    IF ~HasPrefix(f, pos) THEN Raise(StructError, pos)
    ELSE IF ~Whole(f, pos) THEN Raise(GeneralError, Len(f.cells))
    ELSE Ok(pos + 1, f.cells[pos + 1])

\* _read_record_header(f): the sized header blob, parsed into a dict; r is
\* what _read_sized gave
header_of(r) ==
    IF r.st = GeneralError THEN Raise(FormatError, r.pos)
    ELSE IF r.st # OK THEN r
    ELSE IF r.v.k # "hdr" THEN Raise(FormatError, r.pos)
    ELSE Ok(r.pos, r.v.h)

read_record_header(f, pos) == header_of(read_sized(f, pos))

\* _read_record_data(f); r is what _read_sized gave
data_of(r) ==
    IF r.st = GeneralError THEN Raise(FormatError, r.pos)
    ELSE IF r.st # OK THEN r
    ELSE Ok(r.pos, r.v.d)

read_record_data(f, pos) == data_of(read_sized(f, pos))

\* _assert_op(header, expected_op): OK, or the exception raised
assert_op(header, expected_op) ==
    IF "op" \notin DOMAIN header THEN FormatError
    ELSE IF header.op # expected_op THEN FormatError
    ELSE OK

\* _read_field on each field of fields: TRUE if none raises
HasFields(header, fields) == fields \subseteq DOMAIN header

-----------------------------------------------------------------------------
(* The objects of the reader.                                              *)

NoPos == -1     \* decompressed_chunk_pos = None: no chunk is cached

TopicInfo(topic, datatype, md5sum, msg_def) ==
    [topic |-> topic, datatype |-> datatype, md5sum |-> md5sum, msg_def |-> msg_def]

ChunkInfo(pos, start_time, end_time, topic_counts) ==
    [pos |-> pos, start_time |-> start_time, end_time |-> end_time,
     topic_counts |-> topic_counts]

ChunkHeader(compression, compressed_size, uncompressed_size, data_pos) ==
    [compression |-> compression, compressed_size |-> compressed_size,
     uncompressed_size |-> uncompressed_size, data_pos |-> data_pos]

IndexEntry102(time, offset) == [time |-> time, offset |-> offset]

IndexEntry103(time, chunk_pos, offset) ==
    [time |-> time, chunk_pos |-> chunk_pos, offset |-> offset]

\* Bag.__init__ (version is an attribute only once open has read it: 0)
NewBag ==
    [file_set |-> FALSE, version |-> 0, topic_count |-> 0, chunk_count |-> 0,
     topic_infos |-> EmptyDict, chunk_infos |-> <<>>, chunk_headers |-> EmptyDict,
     topic_indexes |-> EmptyDict]

\* _BagSerializer.__init__ and _BagSerializer103.__init__; kind is the class
\* of the object (None: bag.serializer is None).  has_counts is TRUE once
\* read_file_header_record has created the attributes chunk_count and
\* topic_count, has_infos and has_headers once start_reading has created
\* chunk_infos and chunk_headers.  curr_chunk_pos is curr_chunk_info.pos.
NewSerializer(kind) ==
    [kind |-> kind, index_data_pos |-> 0, message_types |-> EmptyDict,
     has_counts |-> FALSE, chunk_count |-> 0, topic_count |-> 0,
     has_infos |-> FALSE, chunk_infos |-> <<>>,
     has_headers |-> FALSE, chunk_headers |-> EmptyDict,
     curr_chunk_pos |-> NoPos,
     decompressed_chunk_pos |-> NoPos, decompressed_chunk |-> <<>>]

\* The objects an operation works on: the read position and the closed flag
\* of the byte source, the Bag and its serializer.
World(p, c, b, s) == [fpos |-> p, fclosed |-> c, bag |-> b, ser |-> s]

\* how a method ends: st is OK or the exception, w the objects afterwards,
\* v the value returned
Ret(st, w, v) == [st |-> st, w |-> w, v |-> v]

\* self.bag._seek(offset) / f.seek(offset)
Seek(w, offset) == [w EXCEPT !.fpos = offset]

\* the method ends with the exception of the read r of the file
Fail(r, w) == Ret(r.st, Seek(w, r.pos), None)

-----------------------------------------------------------------------------
(* _BagSerializer: the methods every reader shares                         *)

\* roslib.genpy.generate_dynamic(datatype, msg_def)[datatype]: the class
\* generated from a definition; a malformed definition (BadDef) raises
\* MsgGenerationException
BadDef == "bad"
generate_dynamic(datatype, msg_def) == <<datatype, msg_def>>

\* the key under which get_message_type caches the class of a topic
TypeKey(topic_info) == topic_info.datatype

\* _BagSerializer.get_message_type
get_message_type(w, topic_info) ==
    IF TypeKey(topic_info) \in DOMAIN w.ser.message_types
    THEN Ret(OK, w, w.ser.message_types[TypeKey(topic_info)])
    ELSE IF topic_info.msg_def = BadDef THEN Ret(GeneralError, w, None)
    ELSE Ret(OK,
             [w EXCEPT !.ser.message_types =
                 Put(@, TypeKey(topic_info),
                     generate_dynamic(topic_info.datatype, topic_info.msg_def))],
             generate_dynamic(topic_info.datatype, topic_info.msg_def))

\* msg = msg_type(); msg.deserialize(record_data)
Deserialize(msg_type, record_data) == [type |-> msg_type, data |-> record_data]

\* read_message_definition_record, from _read_record_data on: w the objects
\* and h the header after the fields were read, d what the read gave
definition_data(w, h, d) ==
    IF d.st # OK THEN Fail(d, w)
    ELSE Ret(OK, Seek(w, d.pos), TopicInfo(h.topic, h.type, h.md5, h.def))

\* read_message_definition_record, from _assert_op on: r is the header read
definition_fields(f, w, r) ==
    IF r.st # OK THEN Fail(r, w)
    ELSE IF assert_op(r.v, OP_MSG_DEF) # OK THEN Ret(FormatError, Seek(w, r.pos), None)
    ELSE IF ~HasFields(r.v, {"topic", "type", "md5", "def"})
         THEN Ret(FormatError, Seek(w, r.pos), None)
    ELSE definition_data(Seek(w, r.pos), r.v, read_record_data(f, r.pos))

\* _BagSerializer.read_message_definition_record(header): header = <<>> stands
\* for None (an empty dict is false too)
read_message_definition_record(f, w, header) ==
    definition_fields(f, w, IF header = <<>> THEN read_record_header(f, w.fpos)
                            ELSE Ok(w.fpos, header))

-----------------------------------------------------------------------------
(* _BagSerializer103: opening                                              *)

\* read_file_header_record: _read_record_data, d what it gave
S103_file_header_data(w, d) == Ret(d.st, Seek(w, d.pos), None)

\* read_file_header_record, from _assert_op on: r is the header read
S103_file_header_fields(f, w, r) ==
    IF r.st # OK THEN Fail(r, w)
    ELSE IF assert_op(r.v, OP_FILE_HEADER) # OK THEN Ret(FormatError, Seek(w, r.pos), None)
    ELSE IF "index_pos" \notin DOMAIN r.v THEN Ret(FormatError, Seek(w, r.pos), None)
    ELSE IF ~HasFields(r.v, {"chunk_count", "topic_count"})
         THEN Ret(FormatError,
                  [Seek(w, r.pos) EXCEPT !.ser.index_data_pos = r.v.index_pos], None)
    ELSE S103_file_header_data(
             [Seek(w, r.pos) EXCEPT !.ser.index_data_pos = r.v.index_pos,
                                    !.ser.has_counts = TRUE,
                                    !.ser.chunk_count = r.v.chunk_count,
                                    !.ser.topic_count = r.v.topic_count],
             read_record_data(f, r.pos))

\* _BagSerializer103.read_file_header_record
S103_read_file_header_record(f, w) ==
    S103_file_header_fields(f, w, read_record_header(f, w.fpos))

\* the dict built from (key, value) pairs, a later pair replacing an earlier
RECURSIVE DictOf(_)
DictOf(pairs) ==
    IF pairs = <<>> THEN EmptyDict
    ELSE Put(DictOf(SubSeq(pairs, 1, Len(pairs) - 1)),
             pairs[Len(pairs)][1], pairs[Len(pairs)][2])

\* the data of a record that the reader parses item by item: the u32 size
\* that is skipped, then count items.  A cut in an item is a struct.error
\* when it falls in an integer and a ROSBagException from _read when it
\* falls in the bytes of a sized blob.
read_items(f, pos, count) ==
    IF ~HasPrefix(f, pos) THEN Raise(StructError, pos)
    ELSE IF count = 0 THEN Ok(pos + 1, f.cells[pos + 1])
    ELSE IF ~Whole(f, pos)
         THEN Raise(IF f.cutIn = "bytes" THEN GeneralError ELSE StructError,
                    Len(f.cells))
    ELSE Ok(pos + 1, f.cells[pos + 1])

\* read_chunk_info_record, the loop over the data: d is what it read
S103_chunk_info_items(w, h, d) ==
    IF d.st # OK THEN Fail(d, w)
    ELSE Ret(OK, Seek(w, d.pos),
             ChunkInfo(h.chunk_pos, h.start_time, h.end_time,
                       DictOf(SubSeq(d.v.tc, 1, h.count))))

\* read_chunk_info_record, from _assert_op on: r is the header read
S103_chunk_info_fields(f, w, r) ==
    IF r.st # OK THEN Fail(r, w)
    ELSE IF assert_op(r.v, OP_CHUNK_INFO) # OK THEN Ret(FormatError, Seek(w, r.pos), None)
    ELSE IF "ver" \notin DOMAIN r.v THEN Ret(FormatError, Seek(w, r.pos), None)
    ELSE IF r.v.ver # 1 THEN Ret(FormatError, Seek(w, r.pos), None)
    ELSE IF ~HasFields(r.v, {"chunk_pos", "start_time", "end_time", "count"})
         THEN Ret(FormatError, Seek(w, r.pos), None)
    ELSE S103_chunk_info_items(Seek(w, r.pos), r.v, read_items(f, r.pos, r.v.count))

\* _BagSerializer103.read_chunk_info_record
S103_read_chunk_info_record(f, w) ==
    S103_chunk_info_fields(f, w, read_record_header(f, w.fpos))

\* read_chunk_header, from the read of the compressed size on: c is what
\* _read_uint32 gave; data_pos is the position after it
S103_chunk_header_size(w, h, c) ==
    IF c.st # OK THEN Ret(c.st, w, None)
    ELSE Ret(OK, Seek(w, w.fpos + 1),
             ChunkHeader(h.compression, c.v, h.size, w.fpos + 1))

\* read_chunk_header, from _assert_op on: r is the header read
S103_chunk_header_fields(f, w, r) ==
    IF r.st # OK THEN Fail(r, w)
    ELSE IF assert_op(r.v, OP_CHUNK) # OK THEN Ret(FormatError, Seek(w, r.pos), None)
    ELSE IF ~HasFields(r.v, {"compression", "size"})
         THEN Ret(FormatError, Seek(w, r.pos), None)
    ELSE S103_chunk_header_size(Seek(w, r.pos), r.v, read_uint32(f, r.pos))

\* _BagSerializer103.read_chunk_header
S103_read_chunk_header(f, w) ==
    S103_chunk_header_fields(f, w, read_record_header(f, w.fpos))

\* read_topic_index_record, the loop over the data: d is what it read;
\* v = <<topic, topic_index>>
S103_topic_index_items(w, h, d) ==
    IF d.st # OK THEN Fail(d, w)
    ELSE Ret(OK, Seek(w, d.pos),
             <<h.topic,
               [i \in 1..h.count |->
                   IndexEntry103(d.v.ix[i][1], w.ser.curr_chunk_pos, d.v.ix[i][2])]>>)

\* read_topic_index_record, from _assert_op on: r is the header read
S103_topic_index_fields(f, w, r) ==
    IF r.st # OK THEN Fail(r, w)
    ELSE IF assert_op(r.v, OP_INDEX_DATA) # OK THEN Ret(FormatError, Seek(w, r.pos), None)
    ELSE IF ~HasFields(r.v, {"ver", "topic", "count"})
         THEN Ret(FormatError, Seek(w, r.pos), None)
    ELSE IF r.v.ver # 1 THEN Ret(FormatError, Seek(w, r.pos), None)
    ELSE S103_topic_index_items(
             Seek(w, r.pos), r.v,
             read_items(Stream(f.cells, f.cut, "int"), r.pos, r.v.count))

\* _BagSerializer103.read_topic_index_record
S103_read_topic_index_record(f, w) ==
    S103_topic_index_fields(f, w, read_record_header(f, w.fpos))

\* for i in range(self.topic_count): read a definition (r) and store it in
\* bag.topic_infos
RECURSIVE S103_read_definitions(_, _, _)
S103_store_definition(f, n, r) ==
    IF r.st # OK THEN r
    ELSE S103_read_definitions(
             f, [r.w EXCEPT !.bag.topic_infos = Put(@, r.v.topic, r.v)], n - 1)

S103_read_definitions(f, w, n) ==
    IF n <= 0 THEN Ret(OK, w, None)
    ELSE S103_store_definition(f, n, read_message_definition_record(f, w, <<>>))

\* for i in range(self.chunk_count): read a ChunkInfo (r) and append it to
\* self.chunk_infos
RECURSIVE S103_read_chunk_infos(_, _, _)
S103_append_chunk_info(f, n, r) ==
    IF r.st # OK THEN r
    ELSE S103_read_chunk_infos(
             f, [r.w EXCEPT !.ser.chunk_infos = Append(@, r.v)], n - 1)

S103_read_chunk_infos(f, w, n) ==
    IF n <= 0 THEN Ret(OK, w, None)
    ELSE S103_append_chunk_info(f, n, S103_read_chunk_info_record(f, w))

\* self.bag.topic_indexes[topic] = index
StoreIndex(topic_indexes, topic, index) == Put(topic_indexes, topic, index)

\* for i in range(len(chunk_info.topic_counts)): read a topic index record
\* (r) and store it
RECURSIVE S103_read_topic_indexes(_, _, _)
S103_store_topic_index(f, n, r) ==
    IF r.st # OK THEN r
    ELSE S103_read_topic_indexes(
             f, [r.w EXCEPT !.bag.topic_indexes = StoreIndex(@, r.v[1], r.v[2])], n - 1)

S103_read_topic_indexes(f, w, n) ==
    IF n <= 0 THEN Ret(OK, w, None)
    ELSE S103_store_topic_index(f, n, S103_read_topic_index_record(f, w))

\* for chunk_info in self.chunk_infos: seek to the chunk, remember its
\* header (h), skip its data, read its index records (x)
RECURSIVE S103_scan_chunks(_, _, _)
S103_scan_next(f, i, x) ==
    IF x.st # OK THEN x ELSE S103_scan_chunks(f, x.w, i + 1)

\* a reader that files the chunk header under the position of the chunk's data
S103_scan_chunk_by_data_pos(f, i, chunk_info, h) ==
    IF h.st # OK THEN h
    ELSE S103_scan_next(
             f, i,
             S103_read_topic_indexes(
                 f,
                 Seek([h.w EXCEPT !.ser.chunk_headers = Put(@, h.v.data_pos, h.v)],
                      h.w.fpos + h.v.compressed_size),
                 Cardinality(DOMAIN chunk_info.topic_counts)))

S103_scan_chunk(f, i, chunk_info, h) ==
    IF h.st # OK THEN h
    ELSE S103_scan_next(
             f, i,
             S103_read_topic_indexes(
                 f,
                 Seek([h.w EXCEPT !.ser.chunk_headers = Put(@, chunk_info.pos, h.v)],
                      h.w.fpos + h.v.compressed_size),
                 Cardinality(DOMAIN chunk_info.topic_counts)))

S103_scan_chunks(f, w, i) ==
    IF i > Len(w.ser.chunk_infos) THEN Ret(OK, w, None)
    ELSE S103_scan_chunk(
             f, i, w.ser.chunk_infos[i],
             S103_read_chunk_header(
                 f, Seek([w EXCEPT !.ser.curr_chunk_pos = w.ser.chunk_infos[i].pos],
                         w.ser.chunk_infos[i].pos)))

\* start_reading, "Read the chunk headers and topic indexes": c is how the
\* loop over the chunk info records ended
S103_start_chunks(f, c) ==
    IF c.st # OK THEN c
    ELSE S103_scan_chunks(
             f,
             [c.w EXCEPT !.bag.topic_indexes = EmptyDict,
                         !.ser.has_headers = TRUE, !.ser.chunk_headers = EmptyDict],
             1)

\* start_reading, "Read the chunk info records": b is how the loop over the
\* definition records ended
S103_start_chunk_infos(f, b) ==
    IF b.st # OK THEN b
    ELSE S103_start_chunks(
             f,
             S103_read_chunk_infos(
                 f, [b.w EXCEPT !.ser.has_infos = TRUE, !.ser.chunk_infos = <<>>],
                 b.w.ser.chunk_count))

\* start_reading, from "Seek to the end of the chunks" on: a is how
\* read_file_header_record ended
S103_start_definitions(f, a) ==
    IF a.st # OK THEN a
    ELSE S103_start_chunk_infos(
             f,
             S103_read_definitions(f, Seek(a.w, a.w.ser.index_data_pos),
                                   a.w.ser.topic_count))

\* _BagSerializer103.start_reading
S103_start_reading(f, w) ==
    S103_start_definitions(f, S103_read_file_header_record(f, w))

-----------------------------------------------------------------------------
(* Reading one message                                                     *)

\* "Skip any MSG_DEF records": read record headers from f at pos, passing
\* over every MSG_DEF record and its data; v is the op of the first other
\* record, pos the position of its data.  h is a header read, d the data read
\* of a MSG_DEF record.
RECURSIVE SkipDefs(_, _)
SkipDefs_data(f, d) == IF d.st # OK THEN d ELSE SkipDefs(f, d.pos)

\* a reader that takes the first record at the offset for the message,
\* whatever its op
SkipDefs_header_first(f, h) ==
    IF h.st # OK THEN h
    ELSE IF "op" \notin DOMAIN h.v THEN Raise(FormatError, h.pos)
    ELSE Ok(h.pos, h.v.op)

SkipDefs_header(f, h) ==
    IF h.st # OK THEN h
    ELSE IF "op" \notin DOMAIN h.v THEN Raise(FormatError, h.pos)
    ELSE IF h.v.op # OP_MSG_DEF THEN Ok(h.pos, h.v.op)
    ELSE SkipDefs_data(f, read_record_data(f, h.pos))

SkipDefs(f, pos) == SkipDefs_header(f, read_record_header(f, pos))

\* _read(self.bag.file, size) at pos: the size cells stored there
read(f, pos, size) ==
    IF \A i \in 0..(size - 1) : Whole(f, pos + i)
    THEN Ok(pos + size, SubSeq(f.cells, pos + 1, pos + size))
    ELSE Raise(GeneralError, IF pos < Len(f.cells) THEN Len(f.cells) ELSE pos)

\* bz2.decompress(compressed_chunk): the payload of a bz2 stream, the empty
\* string for no data, IOError for anything else
bz2_decompress(stored) ==
    IF stored = <<>> THEN Ok(0, <<>>)
    ELSE IF Len(stored) = 1 /\ stored[1].k = "z" /\ stored[1].alg = COMPRESSION_BZ2
         THEN Ok(0, stored[1].p)
    ELSE Raise(IOError, 0)

\* the objects once the record source was read up to pos: the read position
\* of the file moves when the source is the file (in_file)
Moved(in_file, w, pos) == IF in_file THEN Seek(w, pos) ELSE w

\* read_message_data_record, "Deserialize the message": t is what
\* get_message_type gave, d the record data read
message_of(in_file, t, d) ==
    IF d.st # OK THEN Ret(d.st, Moved(in_file, t.w, d.pos), None)
    ELSE Ret(OK, Moved(in_file, t.w, d.pos), Deserialize(t.v, d.v))

\* read_message_data_record, "Read the message content"
message_data(src, in_file, pos, t) ==
    IF t.st # OK THEN t
    ELSE message_of(in_file, t, read_record_data(src, pos))

\* read_message_data_record, from "Check that we have a MSG_DATA record" on:
\* s is how the loop that skips the MSG_DEF records ended
message_type(src, in_file, w, topic, s) ==
    IF s.st # OK THEN Ret(s.st, Moved(in_file, w, s.pos), None)
    ELSE IF s.v # OP_MSG_DATA THEN Ret(FormatError, Moved(in_file, w, s.pos), None)
    ELSE IF topic \notin DOMAIN w.bag.topic_infos
         THEN Ret(KeyError, Moved(in_file, w, s.pos), None)
    ELSE message_data(src, in_file, s.pos,
                      get_message_type(Moved(in_file, w, s.pos), w.bag.topic_infos[topic]))

\* the part of read_message_data_record that follows the choice of f: the
\* record source src is read from pos
read_message_tail(src, in_file, pos, w, topic) ==
    message_type(src, in_file, w, topic, SkipDefs(src, pos))

\* the test that guards the decompression: the slot holds another chunk
CacheMiss(decompressed_chunk_pos, chunk_pos) == decompressed_chunk_pos # chunk_pos

\* read_message_data_record: the decompressed chunk (z) becomes the slot of
\* the cache and the record source
S103_install_chunk(w, topic, entry, z) ==
    IF z.st # OK THEN Ret(z.st, w, None)
    ELSE read_message_tail(
             StringIO(z.v), FALSE, entry.offset,
             [w EXCEPT !.ser.decompressed_chunk = z.v,
                       !.ser.decompressed_chunk_pos = entry.chunk_pos],
             topic)

\* read_message_data_record, "Seek to the chunk data, read and decompress":
\* c is what _read gave
S103_decompress_chunk(w, topic, entry, c) ==
    IF c.st # OK THEN Fail(c, w)
    ELSE S103_install_chunk(Seek(w, c.pos), topic, entry, bz2_decompress(c.v))

\* read_message_data_record, from the test of the compression on
S103_read_from_chunk(f, w, topic, entry, chunk_header) ==
    IF chunk_header.compression = COMPRESSION_NONE
    THEN read_message_tail(f, TRUE, chunk_header.data_pos + entry.offset, w, topic)
    ELSE IF CacheMiss(w.ser.decompressed_chunk_pos, entry.chunk_pos)
    THEN S103_decompress_chunk(
             w, topic, entry,
             read(f, chunk_header.data_pos, chunk_header.compressed_size))
    ELSE read_message_tail(StringIO(w.ser.decompressed_chunk), FALSE, entry.offset,
                           w, topic)

\* _BagSerializer103.read_message_data_record(topic, entry)
S103_read_message_data_record(f, w, topic, entry) ==
    IF ~w.ser.has_headers THEN Ret(AttributeError, w, None)
    ELSE IF entry.chunk_pos \notin DOMAIN w.ser.chunk_headers
         THEN Ret(GeneralError, w, None)
    ELSE S103_read_from_chunk(f, w, topic, entry, w.ser.chunk_headers[entry.chunk_pos])

\* the visits of a reader that walks the index of each topic from its newest
\* entry to its oldest
RECURSIVE Visits_newest_first(_, _)
Visits_newest_first(topic_indexes, order) ==
    IF order = <<>> THEN <<>>
    ELSE [i \in 1..Len(topic_indexes[Head(order)]) |->
             <<Head(order),
               topic_indexes[Head(order)][Len(topic_indexes[Head(order)]) + 1 - i]>>]
         \o Visits_newest_first(topic_indexes, Tail(order))

\* the (topic, entry) pairs in the order the two loops of get_messages visit
\* them, for the order in which the dict enumerates its topics
RECURSIVE Visits(_, _)
Visits(topic_indexes, order) ==
    IF order = <<>> THEN <<>>
    ELSE [i \in 1..Len(topic_indexes[Head(order)]) |->
             <<Head(order), topic_indexes[Head(order)][i]>>]
         \o Visits(topic_indexes, Tail(order))

\* the two loops of get_messages: messages.append(message) for each visit;
\* r is how the read of the first of visits ended
RECURSIVE S103_read_all(_, _, _, _)
S103_append_message(f, visits, messages, r) ==
    IF r.st # OK THEN r
    ELSE S103_read_all(f, r.w, Tail(visits), Append(messages, r.v))

S103_read_all(f, w, visits, messages) ==
    IF visits = <<>> THEN Ret(OK, w, messages)
    ELSE S103_append_message(
             f, visits, messages,
             S103_read_message_data_record(f, w, Head(visits)[1], Head(visits)[2]))

\* _BagSerializer103.get_messages, the dict enumerating its topics in order
S103_get_messages(f, w, order) ==
    S103_read_all(f, w, Visits(w.bag.topic_indexes, order), <<>>)

-----------------------------------------------------------------------------
(* _BagSerializer102_Indexed                                               *)

\* read_file_header_record, from _assert_op on: r is the header read
I102_file_header_fields(f, w, r) ==
    IF r.st # OK THEN Fail(r, w)
    ELSE IF assert_op(r.v, OP_FILE_HEADER) # OK THEN Ret(FormatError, Seek(w, r.pos), None)
    ELSE IF "index_pos" \notin DOMAIN r.v THEN Ret(FormatError, Seek(w, r.pos), None)
    ELSE S103_file_header_data(
             [Seek(w, r.pos) EXCEPT !.ser.index_data_pos = r.v.index_pos],
             read_record_data(f, r.pos))

\* _BagSerializer102_Indexed.read_file_header_record
I102_read_file_header_record(f, w) ==
    I102_file_header_fields(f, w, read_record_header(f, w.fpos))

\* read_topic_index_record, the loop over the data: d is what it read;
\* v = <<topic, topic_index>>
I102_topic_index_items(w, h, d) ==
    IF d.st # OK THEN Fail(d, w)
    ELSE Ret(OK, Seek(w, d.pos),
             <<h.topic,
               [i \in 1..h.count |-> IndexEntry102(d.v.ix[i][1], d.v.ix[i][2])]>>)

\* read_topic_index_record, from _assert_op on: r is the header read
I102_topic_index_fields(f, w, r) ==
    IF r.st # OK THEN Fail(r, w)
    ELSE IF assert_op(r.v, OP_INDEX_DATA) # OK THEN Ret(FormatError, Seek(w, r.pos), None)
    ELSE IF ~HasFields(r.v, {"ver", "topic", "count"})
         THEN Ret(FormatError, Seek(w, r.pos), None)
    ELSE IF r.v.ver # 1 THEN Ret(FormatError, Seek(w, r.pos), None)
    ELSE I102_topic_index_items(
             Seek(w, r.pos), r.v,
             read_items(Stream(f.cells, f.cut, "int"), r.pos, r.v.count))

\* _BagSerializer102_Indexed.read_topic_index_record
I102_read_topic_index_record(f, w) ==
    I102_topic_index_fields(f, w, read_record_header(f, w.fpos))

\* "while True:" around read_topic_index_record (r): the loop has no exit, it
\* ends with the exception of the read that fails
RECURSIVE I102_read_topic_indexes(_, _)
I102_store_topic_index(f, r) ==
    IF r.st # OK THEN r
    ELSE I102_read_topic_indexes(
             f, [r.w EXCEPT !.bag.topic_indexes = StoreIndex(@, r.v[1], r.v[2])])

I102_read_topic_indexes(f, w) ==
    I102_store_topic_index(f, I102_read_topic_index_record(f, w))

\* start_reading, from "Seek to the beginning of the topic index records"
\* on: a is how read_file_header_record ended.  The statements after the
\* loop (the definition records) are never reached.
I102_start_indexes(f, a) ==
    IF a.st # OK THEN a
    ELSE I102_read_topic_indexes(f, Seek(a.w, a.w.ser.index_data_pos))

\* _BagSerializer102_Indexed.start_reading
I102_start_reading(f, w) == I102_start_indexes(f, I102_read_file_header_record(f, w))

\* _BagSerializer102_Indexed.read_message_data_record(topic), after the
\* f.seek(entry.offset) of get_messages
I102_read_message_data_record(f, w, topic, offset) ==
    read_message_tail(f, TRUE, offset, w, topic)

\* _BagSerializer102_Indexed.get_messages: the serializer has no attribute
\* topic_indexes (the index is kept in the Bag)
I102_get_messages(f, w) == Ret(AttributeError, w, <<>>)

-----------------------------------------------------------------------------
(* _BagSerializer102_Unindexed                                             *)

\* the frame of a generator made by get_messages: state "created" before the
\* first step, "suspended" at a yield, "finished" once it returned or raised;
\* bound is TRUE once the local topic_info was assigned; emitted are the
\* messages it yielded
NoTopicInfo == TopicInfo("", "", "", "")

NoGenerator ==
    [state |-> "none", bound |-> FALSE, topic_info |-> NoTopicInfo, emitted |-> <<>>]

NewGenerator == [NoGenerator EXCEPT !.state = "created"]

\* how a step of the generator ends: st is OK at a yield (v the message),
\* StopIteration when it returns, or the exception it raises
StopIteration == "StopIteration"

GenRet(st, w, g, v) == [st |-> st, w |-> w, g |-> g, v |-> v]

\* the exception that a failing _read_record_header ends the generator with
\* ("except: return")
HeaderFailure(st) == StopIteration

\* "Read MSG_DEF records": the inner loop of get_messages; h is the header
\* read, r the definition record read
RECURSIVE U102_read_defs(_, _, _)
\* a reader that keeps in topic_infos only the definition read last
U102_store_definition_alone(f, g, r) ==
    IF r.st # OK THEN GenRet(r.st, r.w, g, None)
    ELSE U102_read_defs(f, [r.w EXCEPT !.bag.topic_infos = Put(EmptyDict, r.v.topic, r.v)],
                        [g EXCEPT !.bound = TRUE, !.topic_info = r.v])

U102_store_definition(f, g, r) ==
    IF r.st # OK THEN GenRet(r.st, r.w, g, None)
    ELSE U102_read_defs(f, [r.w EXCEPT !.bag.topic_infos = Put(@, r.v.topic, r.v)],
                        [g EXCEPT !.bound = TRUE, !.topic_info = r.v])

U102_read_def(f, w, g, h) ==
    IF h.st # OK THEN GenRet(HeaderFailure(h.st), Seek(w, h.pos), g, None)
    ELSE IF "op" \notin DOMAIN h.v THEN GenRet(FormatError, Seek(w, h.pos), g, None)
    ELSE IF h.v.op # OP_MSG_DEF THEN GenRet(OK, Seek(w, h.pos), g, h.v.op)
    ELSE U102_store_definition(
             f, g, read_message_definition_record(f, Seek(w, h.pos), h.v))

U102_read_defs(f, w, g) == U102_read_def(f, w, g, read_record_header(f, w.fpos))

\* get_messages, "Deserialize the message" and yield: t is what
\* get_message_type gave, d the record data read
U102_yield(g, t, d) ==
    IF d.st # OK THEN GenRet(d.st, Seek(t.w, d.pos), g, None)
    ELSE GenRet(OK, Seek(t.w, d.pos), g, Deserialize(t.v, d.v))

\* get_messages, "Read the message content"
U102_message_data(f, g, t) ==
    IF t.st # OK THEN GenRet(t.st, t.w, g, None)
    ELSE U102_yield(g, t, read_record_data(f, t.w.fpos))

\* get_messages, from "Check that we have a MSG_DATA record" on: a is how
\* the inner loop ended
U102_message(f, a) ==
    IF a.st # OK THEN a
    ELSE IF a.v # OP_MSG_DATA THEN GenRet(FormatError, a.w, a.g, None)
    ELSE IF ~a.g.bound THEN GenRet(UnboundLocalError, a.w, a.g, None)
    ELSE U102_message_data(f, a.g, get_message_type(a.w, a.g.topic_info))

\* one step (next()) of the generator of _BagSerializer102_Unindexed.get_messages
U102_next(f, w, g) == U102_message(f, U102_read_defs(f, w, g))

-----------------------------------------------------------------------------
(* Bag                                                                     *)

\* a version computed as major * 10 + minor
read_version_tens(f) ==
    IF ~f.banner.match THEN Raise(GeneralError, 0)
    ELSE Ok(0, f.banner.major * 10 + f.banner.minor)

\* Bag._read_version: the first line against "#ROS(.*) V(\d).(\d)"; v is the
\* version, int(major) * 100 + int(minor)
read_version(f) ==
    IF ~f.banner.match THEN Raise(GeneralError, 0)
    ELSE Ok(0, f.banner.major * 100 + f.banner.minor)

\* self.file.close()
file_close(w) == [w EXCEPT !.fclosed = TRUE]

\* an open that dispatches with the read position left after the header of
\* the first record
Bag_open_102_unrestored(f, w, h) ==
    IF h.st # OK THEN Fail(h, w)
    ELSE IF "op" \notin DOMAIN h.v THEN Ret(FormatError, Seek(w, h.pos), None)
    ELSE IF h.v.op = OP_FILE_HEADER
         THEN I102_start_reading(f, [Seek(w, h.pos) EXCEPT !.ser = NewSerializer("102I")])
    ELSE Ret(OK, [Seek(w, h.pos) EXCEPT !.ser = NewSerializer("102U")], None)

\* Bag.open, version 102: h is the header of the first record, read at
\* first_record_pos = w.fpos
Bag_open_102(f, w, h) ==
    IF h.st # OK THEN Fail(h, w)
    ELSE IF "op" \notin DOMAIN h.v THEN Ret(FormatError, Seek(w, h.pos), None)
    ELSE IF h.v.op = OP_FILE_HEADER
         THEN I102_start_reading(f, [w EXCEPT !.ser = NewSerializer("102I")])
    ELSE Ret(OK, [w EXCEPT !.ser = NewSerializer("102U")], None)

\* Bag.open, from "Read the version line" on: v is what _read_version gave
Bag_open_version(f, w, v) ==
    IF v.st # OK THEN Ret(v.st, file_close(w), None)
    ELSE IF v.v = 103
         THEN S103_start_reading(
                  f, [w EXCEPT !.bag.version = v.v, !.ser = NewSerializer("103")])
    ELSE IF v.v = 102
         THEN Bag_open_102(f, [w EXCEPT !.bag.version = v.v],
                           read_record_header(f, w.fpos))
    ELSE Ret(FormatError, [w EXCEPT !.bag.version = v.v], None)

\* Bag.open(f, mode) for an argument that is a file (arg = "file"; a str is
\* opened as a file and handled alike) or anything else
Bag_open(f, arg, w) ==
    IF arg # "file" THEN Ret(GeneralError, w, None)
    ELSE Bag_open_version(f, [w EXCEPT !.bag.file_set = TRUE, !.fpos = 0],
                          read_version(f))

\* Bag.close: pass
Bag_close(w) == Ret(OK, w, None)

-----------------------------------------------------------------------------
(* The bag files the model reads.  A file is built the way the format lays *)
(* it out; positions and sizes count cells.                                *)

Banner(match, major, minor) == [match |-> match, major |-> major, minor |-> minor]

File(banner, cells, cut, cutIn) ==
    [banner |-> banner, cells |-> cells, cut |-> cut, cutIn |-> cutIn]

DefRec(t) ==
    <<HdrCell([op |-> OP_MSG_DEF, topic |-> t.topic, type |-> t.datatype,
               md5 |-> t.md5sum, def |-> t.msg_def]),
      DataCell("")>>

MsgRec(topic, bytes) ==
    <<HdrCell([op |-> OP_MSG_DATA, topic |-> topic]), DataCell(bytes)>>

\* the definition records a bag declares its topics with
TA1 == TopicInfo("/a", "D1", "h1", "m1")
TB2 == TopicInfo("/b", "D2", "h2", "m2")
TB1 == TopicInfo("/b", "D1", "h3", "m2")    \* the datatype of /a, another definition
TAbad == TopicInfo("/a", "D1", "h4", BadDef)

Schemas == { <<TA1, TB2>>, <<TA1, TB1>>, <<TA1>>, <<TAbad, TB2>> }

SchemaOf(schema, topic) ==
    IF \E i \in DOMAIN schema : schema[i].topic = topic
    THEN schema[CHOOSE i \in DOMAIN schema : schema[i].topic = topic]
    ELSE TopicInfo(topic, "D9", "h9", "m9")

\* the bytes of message j of chunk ci: no two messages of a bag are alike
Bytes(ci, j) == ToString(10 * ci + j)

\* A chunk is described by its compression field, the topics of its messages
\* in order, and whether a definition record precedes its first message.
ChunkDesc(comp, topics, defs) == [comp |-> comp, topics |-> topics, defs |-> defs]

Compressions == {COMPRESSION_NONE, COMPRESSION_BZ2, COMPRESSION_ZLIB, "lz4"}

TopicLists == { <<"/a">>, <<"/a", "/b">>, <<"/b", "/b">> }

ChunkDescs ==
    {ChunkDesc(c, ts, FALSE) : c \in Compressions, ts \in TopicLists}
    \cup {ChunkDesc(c, <<"/a", "/b">>, TRUE) : c \in {COMPRESSION_NONE, COMPRESSION_BZ2}}

\* the records of the uncompressed payload of chunk ci
Payload(ci, c, schema) ==
    (IF c.defs THEN DefRec(SchemaOf(schema, c.topics[1])) ELSE <<>>)
    \o Flatten([j \in 1..Len(c.topics) |-> MsgRec(c.topics[j], Bytes(ci, j))])

\* the offset in the payload that the index entry of message j points at
OffsetOf(c, j) == IF c.defs THEN (IF j = 1 THEN 0 ELSE 2 * j) ELSE 2 * (j - 1)

TopicOrder == <<"/a", "/b">>

\* the distinct topics of a chunk
TopicsOf(c) == SelectSeq(TopicOrder, LAMBDA t : t \in Range(c.topics))

MessagesOf(c, t) == SelectSeq([j \in 1..Len(c.topics) |-> j], LAMBDA j : c.topics[j] = t)

\* the index record of topic t that follows chunk ci
IndexRec(ci, c, t) ==
    LET js == MessagesOf(c, t) IN
    <<HdrCell([op |-> OP_INDEX_DATA, ver |-> 1, topic |-> t, count |-> Len(js)]),
      IxCell([i \in 1..Len(js) |-> <<10 * ci + js[i], OffsetOf(c, js[i])>>])>>

\* the chunk record (header, size, stored data) and its index records
ChunkCells(ci, c, schema) ==
    LET payload == Payload(ci, c, schema)
        stored == IF c.comp = COMPRESSION_NONE THEN payload
                  ELSE <<ZCell(c.comp, payload)>>
    IN  <<HdrCell([op |-> OP_CHUNK, compression |-> c.comp, size |-> Len(payload)]),
          LenCell(Len(stored))>>
        \o stored
        \o Flatten([i \in 1..Len(TopicsOf(c)) |-> IndexRec(ci, c, TopicsOf(c)[i])])

\* the chunk info record of chunk ci, stored at chunk_pos
ChunkInfoRec(ci, c, chunk_pos) ==
    LET ts == TopicsOf(c) IN
    <<HdrCell([op |-> OP_CHUNK_INFO, ver |-> 1, chunk_pos |-> chunk_pos,
               start_time |-> 10 * ci + 1, end_time |-> 10 * ci + Len(c.topics),
               count |-> Len(ts)]),
      TcCell([i \in 1..Len(ts) |-> <<ts[i], Len(MessagesOf(c, ts[i]))>>])>>

\* the cells of a v1.3 bag with the given chunks and definition records
Cells103(chunks, schema) ==
    LET body == [ci \in 1..Len(chunks) |-> ChunkCells(ci, chunks[ci], schema)]
        chunk_pos == [ci \in 1..Len(chunks) |->
                         2 + SumSeq([k \in 1..(ci - 1) |-> Len(body[k])])]
        index_pos == 2 + SumSeq([k \in 1..Len(chunks) |-> Len(body[k])])
    IN  <<HdrCell([op |-> OP_FILE_HEADER, index_pos |-> index_pos,
                   chunk_count |-> Len(chunks), topic_count |-> Len(schema)]),
          DataCell("")>>
        \o Flatten(body)
        \o Flatten([i \in 1..Len(schema) |-> DefRec(schema[i])])
        \o Flatten([ci \in 1..Len(chunks) |->
                       ChunkInfoRec(ci, chunks[ci], chunk_pos[ci])])

V13 == Banner(TRUE, 1, 3)
V12 == Banner(TRUE, 1, 2)

Bag103(chunks, schema) == File(V13, Cells103(chunks, schema), "none", "int")

\* The well-formed v1.3 bags of the model: no chunk, one chunk, two chunks.
ChunkLists ==
    {<<>>} \cup {<<c>> : c \in ChunkDescs}
    \cup {<<c, d>> : c \in ChunkDescs, d \in {x \in ChunkDescs : ~x.defs}}

Bags103 == {Bag103(cs, sc) : cs \in ChunkLists, sc \in Schemas}

\* the cells of an indexed v1.2 bag with messages on the given topics: the
\* first message of a topic follows its definition record, and the index
\* entry of a message holds the position of its first record
Offset102(topics, j) ==
    2 + 2 * (j - 1) + 2 * Cardinality({topics[k] : k \in 1..(j - 1)})

IndexRec102(topics, t) ==
    LET js == SelectSeq([j \in 1..Len(topics) |-> j], LAMBDA j : topics[j] = t) IN
    <<HdrCell([op |-> OP_INDEX_DATA, ver |-> 1, topic |-> t, count |-> Len(js)]),
      IxCell([i \in 1..Len(js) |-> <<js[i], Offset102(topics, js[i])>>])>>

Cells102I(topics, schema) ==
    LET ts == SelectSeq(TopicOrder, LAMBDA t : t \in Range(topics))
        index_pos == Offset102(topics, Len(topics) + 1)
    IN  <<HdrCell([op |-> OP_FILE_HEADER, index_pos |-> index_pos]), DataCell("")>>
        \o Flatten([j \in 1..Len(topics) |->
                       (IF topics[j] \in {topics[k] : k \in 1..(j - 1)} THEN <<>>
                        ELSE DefRec(SchemaOf(schema, topics[j])))
                       \o MsgRec(topics[j], Bytes(0, j))])
        \o Flatten([i \in 1..Len(ts) |-> IndexRec102(topics, ts[i])])

Bags102I ==
    {File(V12, Cells102I(ts, sc), "none", "int") :
        ts \in TopicLists, sc \in {<<TA1, TB2>>, <<TA1, TB1>>}}

\* the stream of an unindexed v1.2 bag: up to MaxRecords records, each a
\* definition record or a message data record
RecordKinds == {"defA1", "defB1", "defB2", "msg"}

RecordOf(kind, i) ==
    CASE kind = "defA1" -> DefRec(TA1)
      [] kind = "defB1" -> DefRec(TB1)
      [] kind = "defB2" -> DefRec(TB2)
      [] kind = "msg" -> MsgRec("/x", Bytes(0, i))
      [] OTHER -> <<HdrCell([op |-> OP_INDEX_DATA]), DataCell("")>>

Cells102U(kinds) == Flatten([i \in 1..Len(kinds) |-> RecordOf(kinds[i], i)])

KindLists == UNION {[1..n -> RecordKinds] : n \in 0..MaxRecords}

Bags102U ==
    {File(V12, Cells102U(ks), "none", "int") : ks \in KindLists}
    \cup {File(V12, Cells102U(<<"defA1", "msg", "other">>), "none", "int")}

\* the cell has bytes after its length prefix
HasBody(cell) ==
    \/ cell.k \in {"hdr", "badhdr", "z"}
    \/ cell.k = "data" /\ (cell.d # "" \/ cell.tc # <<>> \/ cell.ix # <<>>)

\* the files left when the end of a file is lost: from cell n + 1 on, from
\* inside the length prefix that follows cell n, or from inside the body of
\* cell n
Truncations(F) ==
    {File(F.banner, SubSeq(F.cells, 1, n), cut, "int") :
        n \in 0..(Len(F.cells) - 1), cut \in {"none", "len"}}
    \cup {File(F.banner, SubSeq(F.cells, 1, n), "body", "int") :
        n \in {i \in 1..Len(F.cells) : HasBody(F.cells[i])}}
    \cup {File(F.banner, SubSeq(F.cells, 1, n), "body", "bytes") :
        n \in {i \in 1..Len(F.cells) : F.cells[i].tc # <<>>}}

\* the bags of which the model reads every truncation
Truncated ==
    UNION {Truncations(F) :
        F \in {Bag103(<<ChunkDesc(COMPRESSION_NONE, <<"/a", "/b">>, FALSE)>>, <<TA1, TB2>>),
               Bag103(<<ChunkDesc(COMPRESSION_BZ2, <<"/a">>, FALSE)>>, <<TA1>>),
               File(V12, Cells102I(<<"/a", "/a">>, <<TA1>>), "none", "int"),
               File(V12, Cells102U(<<"defA1", "msg", "msg">>), "none", "int")}}

\* banners that are rejected, on a bag that is otherwise well formed
BadBanners ==
    {File(b, cells, "none", "int") :
        b \in {Banner(FALSE, 0, 0), Banner(TRUE, 9, 9), Banner(TRUE, 1, 4)},
        cells \in {<<>>, Cells103(<<ChunkDesc(COMPRESSION_NONE, <<"/a">>, FALSE)>>, <<TA1>>)}}

\* a record that is neither a definition nor a message
OtherRec == <<HdrCell([op |-> OP_INDEX_DATA]), DataCell("")>>

\* the records at the start of a chunk or of the message region: two
\* definition records, then a message on /a
TwoDefsThenMessage == DefRec(TA1) \o DefRec(TB2) \o MsgRec("/a", Bytes(1, 1))

\* the index record of /a for them: its first entry points at the first
\* definition record, its second at the record that follows the message,
\* which is no message
IndexRecAfter(offset) ==
    <<HdrCell([op |-> OP_INDEX_DATA, ver |-> 1, topic |-> "/a", count |-> 2]),
      IxCell(<<<<11, offset>>, <<12, offset + 6>>>>)>>

\* a v1.3 bag with one chunk of these records, stored with compression comp
\* (a compressed payload ends with a record of another kind)
StrayCells103(comp) ==
    <<HdrCell([op |-> OP_FILE_HEADER,
               index_pos |-> IF comp = COMPRESSION_NONE THEN 12 ELSE 7,
               chunk_count |-> 1, topic_count |-> 2]),
      DataCell(""),
      HdrCell([op |-> OP_CHUNK, compression |-> comp, size |-> 6]),
      LenCell(IF comp = COMPRESSION_NONE THEN 6 ELSE 1)>>
    \o (IF comp = COMPRESSION_NONE THEN TwoDefsThenMessage
        ELSE <<ZCell(comp, TwoDefsThenMessage \o OtherRec)>>)
    \o IndexRecAfter(0)
    \o DefRec(TA1) \o DefRec(TB2)
    \o <<HdrCell([op |-> OP_CHUNK_INFO, ver |-> 1, chunk_pos |-> 2,
                  start_time |-> 11, end_time |-> 12, count |-> 1]),
         TcCell(<<<<"/a", 2>>>>)>>

\* an indexed v1.2 bag of these records
StrayCells102I ==
    <<HdrCell([op |-> OP_FILE_HEADER, index_pos |-> 8]), DataCell("")>>
    \o TwoDefsThenMessage
    \o IndexRecAfter(2)

\* bags with an index entry that points at a record that is no message
StrayBags ==
    {File(V13, StrayCells103(COMPRESSION_NONE), "none", "int"),
     File(V13, StrayCells103(COMPRESSION_BZ2), "none", "int"),
     File(V12, StrayCells102I, "none", "int")}

Files == Bags103 \cup Bags102I \cup Bags102U \cup Truncated \cup BadBanners \cup StrayBags

-----------------------------------------------------------------------------
(* The state machine                                                        *)

NoEntry == IndexEntry103(0, NoPos, 0)

\* the record of the last call: the operation, how it ended (st), the
\* messages returned (v), for get_messages the visits of its loops, and for a
\* retrieval its arguments
Last(op, st, v, visits, topic, entry) ==
    [op |-> op, st |-> st, v |-> v, visits |-> visits, topic |-> topic, entry |-> entry]

TheWorld == World(fpos, fclosed, bag, ser)

Init ==
    /\ file \in Files
    /\ fpos = 0
    /\ fclosed = FALSE
    /\ bag = NewBag
    /\ ser = NewSerializer(None)
    /\ gen = NoGenerator
    /\ last = Last("init", OK, <<>>, <<>>, "", NoEntry)
    /\ steps = 0

\* the objects after a call that ended as r
Becomes(r) ==
    /\ fpos' = r.w.fpos
    /\ fclosed' = r.w.fclosed
    /\ bag' = r.w.bag
    /\ ser' = r.w.ser

\* the messages a call that ended as r returned
Returned(r) == IF r.st = OK THEN r.v ELSE <<>>

ReturnedOne(r) == IF r.st = OK THEN <<r.v>> ELSE <<>>

Opened(arg, r) ==
    /\ Becomes(r)
    /\ last' = Last("open", r.st, <<>>, <<>>, arg, NoEntry)

\* bag.open(f, 'r')
Open ==
    /\ last.op = "init"
    /\ \E arg \in {"file", "other"} : Opened(arg, Bag_open(file, arg, TheWorld))
    /\ UNCHANGED <<file, gen, steps>>

GotMessages(visits, r) ==
    /\ Becomes(r)
    /\ last' = Last("get_messages", r.st, Returned(r), visits, "", NoEntry)

\* bag.getMessages() on a v1.3 bag
GetMessages103 ==
    /\ ser.kind = "103"
    /\ steps < MaxSteps
    /\ \E order \in Orders(DOMAIN bag.topic_indexes) :
        GotMessages(Visits(bag.topic_indexes, order),
                    S103_get_messages(file, TheWorld, order))
    /\ steps' = steps + 1
    /\ UNCHANGED <<file, gen>>

Retrieved(topic, entry, r) ==
    /\ Becomes(r)
    /\ last' = Last("retrieve", r.st, ReturnedOne(r), <<>>, topic, entry)

\* serializer.read_message_data_record(topic, entry) for an entry of the index
Retrieve103 ==
    /\ ser.kind = "103"
    /\ steps < MaxSteps
    /\ \E topic \in DOMAIN bag.topic_indexes :
        \E entry \in Range(bag.topic_indexes[topic]) :
            Retrieved(topic, entry,
                      S103_read_message_data_record(file, TheWorld, topic, entry))
    /\ steps' = steps + 1
    /\ UNCHANGED <<file, gen>>

\* bag.getMessages() on an indexed v1.2 bag
GetMessages102I ==
    /\ ser.kind = "102I"
    /\ steps < MaxSteps
    /\ GotMessages(<<>>, I102_get_messages(file, TheWorld))
    /\ steps' = steps + 1
    /\ UNCHANGED <<file, gen>>

\* f.seek(entry.offset); serializer.read_message_data_record(topic) on an
\* indexed v1.2 bag
Retrieve102I ==
    /\ ser.kind = "102I"
    /\ steps < MaxSteps
    /\ \E topic \in DOMAIN bag.topic_indexes :
        \E entry \in Range(bag.topic_indexes[topic]) :
            Retrieved(topic, entry,
                      I102_read_message_data_record(file, TheWorld, topic, entry.offset))
    /\ steps' = steps + 1
    /\ UNCHANGED <<file, gen>>

\* bag.getMessages() on an unindexed v1.2 bag: a new generator, nothing read
GetMessages102U ==
    /\ ser.kind = "102U"
    /\ steps < MaxSteps
    /\ gen' = NewGenerator
    /\ last' = Last("get_messages", OK, <<>>, <<>>, "", NoEntry)
    /\ steps' = steps + 1
    /\ UNCHANGED <<file, fpos, fclosed, bag, ser>>

Stepped(r) ==
    /\ Becomes(r)
    /\ gen' = IF r.st = OK
              THEN [r.g EXCEPT !.state = "suspended", !.emitted = Append(@, r.v)]
              ELSE [r.g EXCEPT !.state = "finished"]
    /\ last' = Last("next", r.st, ReturnedOne(r), <<>>, "", NoEntry)

\* next() on the generator of the unindexed v1.2 reader
GenNext ==
    /\ gen.state \in {"created", "suspended"}
    /\ Stepped(U102_next(file, TheWorld, gen))
    /\ UNCHANGED <<file, steps>>

Closed(r) ==
    /\ Becomes(r)
    /\ last' = Last("close", r.st, <<>>, <<>>, "", NoEntry)

\* bag.close()
Close ==
    /\ last.op # "init"
    /\ last.op # "close"
    /\ steps < MaxSteps
    /\ Closed(Bag_close(TheWorld))
    /\ steps' = steps + 1
    /\ UNCHANGED <<file, gen>>

Next ==
    \/ Open
    \/ GetMessages103
    \/ Retrieve103
    \/ GetMessages102I
    \/ Retrieve102I
    \/ GetMessages102U
    \/ GenNext
    \/ Close

Spec == Init /\ [][Next]_vars

-----------------------------------------------------------------------------
(* Properties                                                              *)

\* the last call was open on a file
OpenedFile == last.op = "open" /\ last.topic = "file"

\* the sum of the values of a dict of numbers
RECURSIVE SumValues(_, _)
SumValues(d, keys) ==
    IF keys = {} THEN 0
    ELSE d[CHOOSE k \in keys : TRUE]
         + SumValues(d, keys \ {CHOOSE k \in keys : TRUE})

\* the number of entries of all the indexes
IndexTotal(topic_indexes) ==
    SumValues([t \in DOMAIN topic_indexes |-> Len(topic_indexes[t])],
              DOMAIN topic_indexes)

\* the number of messages the chunk info records count
CountTotal(chunk_infos) ==
    SumSeq([i \in 1..Len(chunk_infos) |->
               SumValues(chunk_infos[i].topic_counts,
                         DOMAIN chunk_infos[i].topic_counts)])

\* C1: after a successful open of a v1.3 bag, the lengths of the per-topic
\* indexes add up to the topic counts of all the chunk info records (each
\* index is the concatenation of the topic's index records over the chunks).
C1_IndexIsConcatenation ==
    (OpenedFile /\ last.st = OK /\ ser.kind = "103") =>
        IndexTotal(bag.topic_indexes) = CountTotal(ser.chunk_infos)

\* C2: open of a well-formed indexed v1.2 bag ends successfully, with a
\* TopicInfo for every indexed topic: the loop over the index records stops
\* at the end of the file.
C2_IndexedOpenSucceeds ==
    (OpenedFile /\ file \in Bags102I) =>
        /\ last.st = OK
        /\ DOMAIN bag.topic_indexes # {}
        /\ DOMAIN bag.topic_indexes \subseteq DOMAIN bag.topic_infos

\* C3: whenever open of a file fails, the byte source is closed when the
\* error reaches the caller.
C3_FailedOpenClosesSource ==
    (OpenedFile /\ last.st # OK) => fclosed

\* a v1.3 bag that holds its banner line and no record
BannerOnly103 == File(V13, <<>>, "none", "int")

\* C4: on a source that holds only the banner line of a v1.3 bag, open
\* succeeds and get_messages returns the empty sequence.
C4_BannerOnlyOpens ==
    file = BannerOnly103 =>
        /\ OpenedFile => last.st = OK
        /\ last.op = "get_messages" => (last.st = OK /\ last.v = <<>>)

\* the file has one of the indexed layouts: v1.3, or v1.2 with a file header
\* as its first record
IndexedLayout(f) ==
    \/ f.banner = V13
    \/ /\ f.banner = V12
       /\ Whole(f, 0)
       /\ f.cells[1].k = "hdr"
       /\ f.cells[1].h.op = OP_FILE_HEADER

\* C5: on a bag cut inside a length prefix or inside a blob, open fails with
\* the format error for the indexed layouts, and the message sequence of the
\* unindexed v1.2 reader ends with the format error, never cleanly and never
\* with another error.
C5_TruncationIsFormatError ==
    file.cut # "none" =>
        /\ (OpenedFile /\ IndexedLayout(file)) => last.st = FormatError
        /\ (last.op = "next" /\ gen.state = "finished") => last.st = FormatError

\* the first record of the file is a message data record
StartsWithMessage(f) ==
    /\ Len(f.cells) >= 2
    /\ f.cut = "none"
    /\ f.cells[1].k = "hdr"
    /\ f.cells[1].h.op = OP_MSG_DATA

\* C6: reading a message of a topic without TopicInfo ends with
\* ROSBagException: on a v1.3 bag for a topic that is not in topic_infos, and
\* in the unindexed v1.2 reader for a message data record that no definition
\* record precedes.
C6_UndeclaredTopicIsGeneralError ==
    /\ ( /\ last.op = "retrieve"
         /\ ser.kind = "103"
         /\ file \in Bags103
         /\ ser.chunk_headers[last.entry.chunk_pos].compression = COMPRESSION_NONE
         /\ last.topic \notin DOMAIN bag.topic_infos )
       => last.st = GeneralError
    /\ (last.op = "next" /\ ~gen.bound /\ StartsWithMessage(file))
       => last.st = GeneralError

\* the compression field of the chunk that the entry read last lies in
LastCompression == ser.chunk_headers[last.entry.chunk_pos].compression

\* C7: the stored data of a chunk is decompressed with the algorithm that its
\* compression field names, so a message of a zlib chunk of a well-formed bag
\* is read, and a compression other than none, bz2 and zlib ends the
\* retrieval with the format error.
C7_DecompressionFollowsField ==
    ( /\ last.op = "retrieve"
      /\ ser.kind = "103"
      /\ file \in Bags103
      /\ last.topic \in DOMAIN bag.topic_infos
      /\ bag.topic_infos[last.topic].msg_def # BadDef )
    => /\ LastCompression = COMPRESSION_ZLIB => last.st = OK
       /\ LastCompression
              \notin {COMPRESSION_NONE, COMPRESSION_BZ2, COMPRESSION_ZLIB}
          => last.st = FormatError

\* the objects after open on a new Bag
FreshlyOpened(f) ==
    Bag_open(f, "file", World(0, FALSE, NewBag, NewSerializer(None))).w

\* the call recorded as l ended as the call r did, with the same message
SameOutcome(l, r) == l.st = r.st /\ l.v = ReturnedOne(r)

EntryData(topic_indexes, order) ==
    Flatten([k \in 1..Len(order) |->
                [i \in 1..Len(topic_indexes[order[k]]) |->
                    ToString(topic_indexes[order[k]][i].time)]])

\* the topic of each visit, for topics enumerated in the given order
EntryTopics(topic_indexes, order) ==
    Flatten([k \in 1..Len(order) |->
                [i \in 1..Len(topic_indexes[order[k]]) |-> order[k]]])

HeadersBefore(cells, pos, op) ==
    {i \in 1..pos : cells[i].k = "hdr" /\ cells[i].h.op = op}

\* the header of the last definition record among the first pos cells
LastDefinition(cells, pos) ==
    cells[CHOOSE i \in HeadersBefore(cells, pos, OP_MSG_DEF) :
              \A j \in HeadersBefore(cells, pos, OP_MSG_DEF) : j <= i].h

Metadata(b, s) ==
    <<b.chunk_infos, b.chunk_headers, b.topic_indexes, s.chunk_infos, s.chunk_headers>>

\* the operation is a step of the iteration over the messages
Iterates(op) == op \in {"get_messages", "next", "retrieve"}

\* C11 as stated: no step of the iteration changes topic_infos, chunk_infos,
\* chunk_headers or topic_indexes, and of the caches only the decompressed
\* chunk changes.
C11_IterationKeepsMetadata ==
    [][Iterates(last'.op) =>
          /\ bag'.topic_infos = bag.topic_infos
          /\ Metadata(bag', ser') = Metadata(bag, ser)
          /\ ser'.message_types = ser.message_types]_vars

\* the TopicInfo of the definition record whose header is cell i
DefinitionAt(cells, i) ==
    TopicInfo(cells[i].h.topic, cells[i].h.type, cells[i].h.md5, cells[i].h.def)

\* C11, amended: no step of the iteration changes chunk_infos, chunk_headers
\* or topic_indexes; the indexed readers leave topic_infos as it was, and the
\* unindexed v1.2 reader only installs in it the TopicInfo of the definition
\* records that the step read; the cache of message types only grows.
C11_IterationKeepsIndexes ==
    [][Iterates(last'.op) =>
          /\ Metadata(bag', ser') = Metadata(bag, ser)
          /\ ser.kind # "102U" => bag'.topic_infos = bag.topic_infos
          /\ DOMAIN bag.topic_infos \subseteq DOMAIN bag'.topic_infos
          /\ \A t \in DOMAIN bag'.topic_infos :
                \/ /\ t \in DOMAIN bag.topic_infos
                   /\ bag'.topic_infos[t] = bag.topic_infos[t]
                \/ \E i \in HeadersBefore(file.cells, fpos', OP_MSG_DEF) :
                      /\ i > fpos
                      /\ bag'.topic_infos[t] = DefinitionAt(file.cells, i)
                      /\ DefinitionAt(file.cells, i).topic = t
          /\ \A k \in DOMAIN ser.message_types :
                /\ k \in DOMAIN ser'.message_types
                /\ ser'.message_types[k] = ser.message_types[k]]_vars

\* a step of the unindexed reader yielded a message after the definition
\* records of two topics were installed
C11_Witness ==
    /\ last.op = "next"
    /\ last.st = OK
    /\ Len(gen.emitted) >= 2
    /\ Cardinality(DOMAIN bag.topic_infos) = 2

\* C12: close never fails, and leaves the byte source closed and the
\* decompressed-chunk cache empty.
C12_CloseReleases ==
    last.op = "close" =>
        /\ last.st = OK
        /\ fclosed
        /\ ser.decompressed_chunk_pos = NoPos
        /\ ser.decompressed_chunk = <<>>

\* C13: for a banner that matches, the version is major * 100 + minor, and
\* for a version other than 102 and 103 open ends with the format error, with
\* no reader selected and nothing read after the banner.
C13_UnknownVersionRejected ==
    (OpenedFile /\ file.banner.match) =>
        /\ bag.version = file.banner.major * 100 + file.banner.minor
        /\ file.banner.major * 100 + file.banner.minor \notin {102, 103} =>
            /\ last.st = FormatError
            /\ ser = NewSerializer(None)
            /\ fpos = 0
            /\ bag.topic_infos = EmptyDict
            /\ bag.topic_indexes = EmptyDict

\* open has rejected a bag whose banner names version 9.9 and that holds
\* records
C13_Witness ==
    /\ OpenedFile
    /\ file.banner = Banner(TRUE, 9, 9)
    /\ file.cells # <<>>
    /\ bag.version = 909
    /\ last.st = FormatError

\* C14: when the first line does not match the banner pattern, open ends with
\* the format error.
C14_BadBannerIsFormatError ==
    (OpenedFile /\ ~file.banner.match) => last.st = FormatError

\* C15: get_messages on an indexed v1.2 bag returns one message per entry of
\* topic_indexes, topic after topic and in index order within a topic, and
\* does not touch the decompressed-chunk cache.
C15_IndexedGetMessages ==
    (last.op = "get_messages" /\ ser.kind = "102I" /\ file \in Bags102I) =>
        /\ last.st = OK
        /\ Len(last.v) = IndexTotal(bag.topic_indexes)
        /\ \E order \in Orders(DOMAIN bag.topic_indexes) :
              [i \in 1..Len(last.v) |-> last.v[i].data]
                  = EntryData(bag.topic_indexes, order)
        /\ ser.decompressed_chunk_pos = NoPos

\* the topics of the definition records of the index region of a v1.3 bag
IndexRegionTopics(cells) ==
    {cells[i].h.topic :
        i \in {j \in HeadersBefore(cells, Len(cells), OP_MSG_DEF) :
                  j > cells[1].h.index_pos}}

\* C16: after a successful open of a v1.3 bag, the tables of the Bag are
\* filled: chunk_infos holds chunk_count entries in the order of the index
\* region, chunk_headers has an entry for the position of each of them, and
\* topic_infos has an entry for each topic of the definition records.
C16_BagTablesPopulated ==
    (OpenedFile /\ last.st = OK /\ ser.kind = "103") =>
        /\ Len(bag.chunk_infos) = file.cells[1].h.chunk_count
        /\ DOMAIN bag.chunk_headers = {bag.chunk_infos[i].pos : i \in DOMAIN bag.chunk_infos}
        /\ Cardinality(DOMAIN bag.chunk_headers) = file.cells[1].h.chunk_count
        /\ DOMAIN bag.topic_infos = IndexRegionTopics(file.cells)

\* the compression field of the chunk that entry lies in
CompressionOf(entry) == ser.chunk_headers[entry.chunk_pos].compression

\* the chunk that entry lies in is stored compressed
InCompressedChunk(entry) ==
    CompressionOf(entry) \in {COMPRESSION_BZ2, COMPRESSION_ZLIB}

\* the records that the stored data of the chunk of entry decompresses to
PayloadOf(entry) == file.cells[ser.chunk_headers[entry.chunk_pos].data_pos + 1].p

\* the position after the stored data of the chunk of entry
DataEndOf(entry) ==
    ser.chunk_headers[entry.chunk_pos].data_pos
        + ser.chunk_headers[entry.chunk_pos].compressed_size

\* the step is a retrieval of an entry of a well-formed v1.3 bag
Retrieves103 == last'.op = "retrieve" /\ ser.kind = "103" /\ file \in Bags103

\* C17: after a retrieval from a compressed chunk the slot of the cache
\* holds the position of that chunk; a retrieval from the chunk that the slot
\* holds does not move or read the file, and the stored data is read (and
\* decompressed) when the slot holds another position.
C17_CachedChunkIsReused ==
    [][(Retrieves103 /\ InCompressedChunk(last'.entry)) =>
          /\ ser'.decompressed_chunk_pos = last'.entry.chunk_pos
          /\ ser.decompressed_chunk_pos = last'.entry.chunk_pos =>
                /\ fpos' = fpos
                /\ ser'.decompressed_chunk = ser.decompressed_chunk
          /\ ser.decompressed_chunk_pos # last'.entry.chunk_pos =>
                fpos' = DataEndOf(last'.entry)]_vars

\* the slot of the cache: the position and the payload it holds
Slot(s) == <<s.decompressed_chunk_pos, s.decompressed_chunk>>

\* C18: the cache holds one chunk: it is empty after open, a retrieval from
\* an uncompressed chunk leaves the slot as it was, and a retrieval from a
\* compressed chunk leaves in it the position and the payload of that chunk.
C18_CacheHoldsLastChunk ==
    [][/\ (last'.op = "open" /\ last'.topic = "file") => Slot(ser') = <<NoPos, <<>>>>
       /\ (Retrieves103 /\ CompressionOf(last'.entry) = COMPRESSION_NONE) =>
              Slot(ser') = Slot(ser)
       /\ (Retrieves103 /\ InCompressedChunk(last'.entry)) =>
              Slot(ser') = <<last'.entry.chunk_pos, PayloadOf(last'.entry)>>]_vars

\* C19: for a version 102 banner, open selects the indexed reader if the op
\* of the first record is OP_FILE_HEADER and the unindexed reader otherwise,
\* and the selected reader starts at the position after the banner: the
\* unindexed reader, which reads nothing in start_reading, is left there, and
\* the indexed reader has read the file header from the first record.
C19_ReaderSelection ==
    (OpenedFile /\ file.banner = V12 /\ Whole(file, 0) /\ file.cells[1].k = "hdr") =>
        /\ ser.kind = IF file.cells[1].h.op = OP_FILE_HEADER THEN "102I" ELSE "102U"
        /\ ser.kind = "102U" => (last.st = OK /\ fpos = 0)
        /\ ser.kind = "102I" => ser.index_data_pos = file.cells[1].h.index_pos

\* open has selected the indexed reader, which read the file header
C19_Witness ==
    /\ OpenedFile
    /\ file.banner = V12
    /\ ser.kind = "102I"
    /\ ser.index_data_pos > 0
    /\ DOMAIN bag.topic_indexes # {}

\* C20: on a v1.3 bag, every entry of topic_indexes has a chunk_pos that is a
\* key of the serializer's chunk_headers, so reading an entry of the index of
\* a well-formed bag never ends with 'no chunk at position'.
C20_EntriesHaveChunkHeaders ==
    /\ ser.kind = "103" =>
          \A t \in DOMAIN bag.topic_indexes :
              \A i \in DOMAIN bag.topic_indexes[t] :
                  /\ ser.has_headers
                  /\ bag.topic_indexes[t][i].chunk_pos \in DOMAIN ser.chunk_headers
    /\ ( /\ last.op = "retrieve"
         /\ ser.kind = "103"
         /\ file \in Bags103
         /\ last.topic \in DOMAIN bag.topic_infos
         /\ bag.topic_infos[last.topic].msg_def # BadDef )
       => last.st \notin {GeneralError, AttributeError}

\* an entry of a bag with two chunks was read
C20_Witness ==
    /\ last.op = "retrieve"
    /\ ser.kind = "103"
    /\ last.st = OK
    /\ Cardinality(DOMAIN ser.chunk_headers) = 2
    /\ last.entry.chunk_pos \in DOMAIN ser.chunk_headers

\* a whole record with a header that parses starts at position p of cells
IsRecordAt(cells, p) == p >= 0 /\ p + 2 <= Len(cells) /\ cells[p + 1].k = "hdr"

\* a whole definition record starts at position p of cells
IsDefinitionAt(cells, p) == IsRecordAt(cells, p) /\ cells[p + 1].h.op = OP_MSG_DEF

\* the position of the first record at or after start that is no whole
\* definition record
FirstOther(cells, start) ==
    start + 2 * (CHOOSE k \in 0..Len(cells) :
                    /\ \A j \in 0..(k - 1) : IsDefinitionAt(cells, start + 2 * j)
                    /\ ~IsDefinitionAt(cells, start + 2 * k))

\* the last call was a retrieval whose record source is whole: the file for
\* the indexed v1.2 reader and for an uncompressed chunk, the payload of a
\* bz2 chunk otherwise
SourceIsWhole ==
    /\ last.op = "retrieve"
    /\ file.cut = "none"
    /\ \/ ser.kind = "102I"
       \/ /\ ser.kind = "103"
          /\ ser.has_headers
          /\ last.entry.chunk_pos \in DOMAIN ser.chunk_headers
          /\ \/ CompressionOf(last.entry) = COMPRESSION_NONE
             \/ /\ CompressionOf(last.entry) = COMPRESSION_BZ2
                /\ DataEndOf(last.entry) <= Len(file.cells)
                /\ file.cells[DataEndOf(last.entry)].k = "z"
                /\ file.cells[DataEndOf(last.entry)].alg = COMPRESSION_BZ2

\* the records that the retrieval reads, and the position in them that the
\* entry points at
RetrievalCells ==
    IF ser.kind = "103" /\ CompressionOf(last.entry) # COMPRESSION_NONE
    THEN PayloadOf(last.entry)
    ELSE file.cells

RetrievalStart ==
    IF ser.kind = "103" /\ CompressionOf(last.entry) = COMPRESSION_NONE
    THEN ser.chunk_headers[last.entry.chunk_pos].data_pos + last.entry.offset
    ELSE last.entry.offset

\* what the retrieval gives when the first record after the definition
\* records is at position t of cells
ReadsRecordAt(cells, t) ==
    /\ last.st = OK =>
          /\ IsRecordAt(cells, t)
          /\ cells[t + 1].h.op = OP_MSG_DATA
          /\ Len(last.v) = 1
          /\ last.v[1].data = cells[t + 2].d
    /\ (IsRecordAt(cells, t) /\ cells[t + 1].h.op # OP_MSG_DATA) =>
          /\ last.st = FormatError
          /\ last.v = <<>>
    /\ ( /\ IsRecordAt(cells, t)
         /\ cells[t + 1].h.op = OP_MSG_DATA
         /\ last.topic \in DOMAIN bag.topic_infos
         /\ bag.topic_infos[last.topic].msg_def # BadDef )
       => last.st = OK

C22_FormatErrorCloses ==
    [][(ser.kind = "103" /\ last.st = FormatError)
          => ~(last'.op \in {"get_messages", "retrieve"} /\ last'.st = OK)]_vars

=============================================================================
